---- MODULE Spec2Model ----
(***************************************************************************)
(* State-machine model of gtmf.py (Google Takeout Metadata Fixer).          *)
(*                                                                         *)
(* The filesystem is a partial map from paths (sequences of names) to      *)
(* nodes.  One run of the program is main() followed by the loop of        *)
(* fix_metadata(): the lazy directory generator is advanced to its next    *)
(* yield, the directory is snapshotted and its parsers are created, then   *)
(* each parser is applied (and its metadata file possibly relocated).      *)
(***************************************************************************)
EXTENDS Integers, Sequences, FiniteSets, TLC

\* ------------------------------------------------------------------ bounds
\* largest number of metadata (sidecar) files in an initial source tree
MaxSidecars == 2
\* number of times the tool is run on the same tree
MaxRuns == 2

\* ------------------------------------------------------------------ paths
Parent(p) == SubSeq(p, 1, Len(p) - 1)
Name(p) == p[Len(p)]
\* Path.joinpath(name) for a name of one segment; joining "" gives the path itself
Joinpath(p, n) == IF n = <<>> THEN p ELSE Append(p, n)
IsUnder(p, d) == Len(p) >= Len(d) /\ SubSeq(p, 1, Len(d)) = d
RelativeTo(p, d) == SubSeq(p, Len(d) + 1, Len(p))

\* A name is a string of characters, written as a sequence of one-character
\* strings: "a.json" is <<"a", ".", "j", "s", "o", "n">>.
Ext(stem, suffix) == stem \o suffix
DotJson == <<".", "j", "s", "o", "n">>
DotHtml == <<".", "h", "t", "m", "l">>

\* ord(c) of the characters that occur in the model
CharCode(c) ==
  CASE c = "'" -> 39 [] c = "-" -> 45 [] c = "." -> 46 [] c = "/" -> 47
    [] c = "A" -> 65 [] c = "B" -> 66 [] c = "D" -> 68 [] c = "S" -> 83
    [] c = "_" -> 95 [] c = "a" -> 97 [] c = "b" -> 98 [] c = "c" -> 99
    [] c = "h" -> 104 [] c = "j" -> 106 [] c = "l" -> 108 [] c = "m" -> 109
    [] c = "n" -> 110 [] c = "o" -> 111 [] c = "p" -> 112 [] c = "s" -> 115
    [] c = "t" -> 116 [] c = "z" -> 122

\* str.__lt__: lexicographic by code point
RECURSIVE StrLess(_, _)
StrLess(a, b) ==
  IF a = <<>> THEN b # <<>>
  ELSE IF b = <<>> THEN FALSE
  ELSE IF Head(a) = Head(b) THEN StrLess(Tail(a), Tail(b))
  ELSE CharCode(Head(a)) < CharCode(Head(b))

\* PurePath.__lt__: lexicographic over the parts
RECURSIVE PathLess(_, _)
PathLess(p, q) ==
  IF p = <<>> THEN q # <<>>
  ELSE IF q = <<>> THEN FALSE
  ELSE IF Head(p) = Head(q) THEN PathLess(Tail(p), Tail(q))
  ELSE StrLess(Head(p), Head(q))

\* str.endswith(suffix)
EndsWith(n, suffix) ==
  Len(n) >= Len(suffix) /\ SubSeq(n, Len(n) - Len(suffix) + 1, Len(n)) = suffix

\* str.replace(old, new) for a one-character old
RECURSIVE Replace(_, _, _)
Replace(s, old, new) ==
  IF s = <<>> THEN <<>>
  ELSE <<IF Head(s) = old THEN new ELSE Head(s)>> \o Replace(Tail(s), old, new)

\* ------------------------------------------------------------- filesystem
VARIABLES
  fs,        \* path -> node, for every path that exists
  listing,   \* the order in which the OS lists directory entries
  tz,        \* UTC offset of the local time zone
  argv,      \* [source, dest (<<>> or <<path>>), move_unmatched]
  pc,        \* "start", "walk", "apply", "done", "rejected", "crashed"
  walk,      \* stack of the suspended frames of get_depth_first_directories
  directory, \* the directory yielded last
  parsers,   \* the parsers of that directory
  idx,       \* position of the for-loop over parsers
  stdout,
  stderr,
  yielded,   \* history: directories yielded in this run, in order
  moved,     \* history: relocations done, as <<from, to>>
  runs,      \* number of runs started
  fs0,       \* history: the filesystem when this run started
  log        \* history: per parser processed in this run, what happened

vars == <<fs, listing, tz, argv, pc, walk, directory, parsers, idx, stdout,
          stderr, yielded, moved, runs, fs0, log>>

DirNode == [kind |-> "dir", atime |-> 0, mtime |-> 0, data |-> [fmt |-> "none"]]
FileNode(d) == [kind |-> "file", atime |-> 0, mtime |-> 0, data |-> d]

Exists(f, p) == p \in DOMAIN f
IsDir(f, p) == p \in DOMAIN f /\ f[p].kind = "dir"
Children(f, d) == {p \in DOMAIN f : Len(p) = Len(d) + 1 /\ Parent(p) = d}

\* order in which the operating system lists two entries of a directory
ListedBefore(ord, p, q) ==
  IF ord = "asc" THEN PathLess(p, q) ELSE PathLess(q, p)

RECURSIVE InOrder(_, _)
InOrder(ord, S) ==
  IF S = {} THEN <<>>
  ELSE LET first == CHOOSE p \in S : \A q \in S \ {p} : ListedBefore(ord, p, q)
       IN <<first>> \o InOrder(ord, S \ {first})

\* Path.iterdir(): the entries of d, in the order the OS lists them
Iterdir(f, ord, d) == InOrder(ord, Children(f, d))

\* sorted(): insertion of each element into the sorted rest
RECURSIVE Insert(_, _)
Insert(x, s) ==
  IF s = <<>> THEN <<x>>
  ELSE IF PathLess(Head(s), x) THEN <<Head(s)>> \o Insert(x, Tail(s))
  ELSE <<x>> \o s

AsListed(s) == s

RECURSIVE Sorted(_)
Sorted(s) == IF s = <<>> THEN <<>> ELSE Insert(Head(s), Sorted(Tail(s)))

\* os.makedirs(p, exist_ok=True) / Path.mkdir(parents=True, exist_ok=True):
\* creates every missing directory of p; fails when a component is a file.
RECURSIVE MakeDirs(_, _)
MakeDirs(f, p) ==
  IF p = <<>> THEN [fs |-> f, err |-> "none"]
  ELSE LET up == MakeDirs(f, Parent(p))
       IN IF up.err # "none" THEN [fs |-> up.fs, err |-> "NotADirectoryError"]
          ELSE IF Exists(up.fs, p)
               THEN [fs |-> up.fs,
                     err |-> IF up.fs[p].kind = "dir" THEN "none" ELSE "FileExistsError"]
               ELSE [fs |-> [q \in DOMAIN up.fs \cup {p} |->
                               IF q = p THEN DirNode ELSE up.fs[q]],
                     err |-> "none"]

\* Path.rename(new): moves the node; replaces an existing file; fails when
\* the target is a directory or the source or the target's directory is missing.
Rename(f, old, new) ==
  IF ~Exists(f, old) THEN [fs |-> f, err |-> "FileNotFoundError"]
  ELSE IF old = new THEN [fs |-> f, err |-> "none"]
  ELSE IF ~IsDir(f, Parent(new)) THEN [fs |-> f, err |-> "FileNotFoundError"]
  ELSE IF IsDir(f, new) THEN [fs |-> f, err |-> "IsADirectoryError"]
  ELSE [fs |-> [q \in (DOMAIN f \ {old}) \cup {new} |->
                  IF q = new THEN f[old] ELSE f[q]],
        err |-> "none"]

\* os.utime(p) without times sets both to the current time
UtimeNow(f, p, t) == [f EXCEPT ![p].atime = 1000 + runs, ![p].mtime = 1000 + runs]

\* os.utime(p, (t, t))
Utime(f, p, t) == [f EXCEPT ![p].atime = t, ![p].mtime = t]

\* ------------------------------------------------------- metadata documents
\* An optional value is <<>> (absent) or <<v>>.
None == <<>>
Some(v) == <<v>>
Has(o) == o # <<>>
Val(o) == o[1]

\* Path.read_text(): the text of a file; fails on a directory or a missing path
ReadText(f, p) ==
  IF Exists(f, p) /\ f[p].kind = "file"
  THEN [err |-> "none", text |-> f[p].data]
  ELSE [err |-> "OSError", text |-> [fmt |-> "none"]]

\* json.loads(text): a JSON text is "invalid", "null" or an "object" with
\* the optional members title, albumData, last_modified_by_any_user,
\* photoTakenTime and date; any other text is not JSON.
JsonLoads(text) ==
  IF text.fmt = "json" /\ text.doc.kind # "invalid"
  THEN [err |-> "none", v |-> text.doc]
  ELSE [err |-> "JSONDecodeError", v |-> [kind |-> "invalid"]]

\* data.get('title', None) or data.get('albumData', []).get('title', None)
\* (an empty title is falsy; [].get raises AttributeError)
GetTitle(data) ==
  IF Has(data.title) /\ Val(data.title) # <<>>
  THEN [err |-> "none", title |-> data.title]
  ELSE IF ~Has(data.albumData)
  THEN [err |-> "AttributeError", title |-> None]
  ELSE [err |-> "none", title |-> Val(data.albumData).title]

\* title.replace("'", '_').replace('/', '-')
Sanitize(title) == Replace(Replace(title, "'", "_"), "/", "-")

Parser(cls, metadata_path, primary_path, data) ==
  [cls |-> cls, metadata_path |-> metadata_path, primary_path |-> primary_path,
   data |-> data]

JsonCreateDirectoryFirst(f, metadata_path, allow_unmatched_primary_path) ==
  LET rd == ReadText(f, metadata_path)
      js == JsonLoads(rd.text)
      gt == GetTitle(js.v)
      title == Sanitize(Val(gt.title))
      sibling == Joinpath(Parent(metadata_path), title)
  IN IF rd.err # "none" \/ js.err # "none" THEN None
     ELSE IF js.v.kind = "null" THEN None
     ELSE IF gt.err # "none" THEN None
     ELSE IF ~Has(gt.title) THEN None
     ELSE IF Name(Parent(metadata_path)) = title
       THEN Some(Parser("JsonParser", metadata_path, Parent(metadata_path), js.v))
     ELSE IF Exists(f, sibling) \/ allow_unmatched_primary_path
       THEN Some(Parser("JsonParser", metadata_path, sibling, js.v))
     ELSE None

\* JsonParser.create: None or Some(parser)
JsonCreate(f, metadata_path, allow_unmatched_primary_path) ==
  LET rd == ReadText(f, metadata_path)
      js == JsonLoads(rd.text)
      gt == GetTitle(js.v)
      title == Sanitize(Val(gt.title))
      sibling == Joinpath(Parent(metadata_path), title)
  IN IF rd.err # "none" \/ js.err # "none" THEN None
     ELSE IF js.v.kind = "null" THEN None
     ELSE IF gt.err # "none" THEN None
     ELSE IF ~Has(gt.title) THEN None
     ELSE IF Exists(f, sibling)
       THEN Some(Parser("JsonParser", metadata_path, sibling, js.v))
     ELSE IF Name(Parent(metadata_path)) = title
       THEN Some(Parser("JsonParser", metadata_path, Parent(metadata_path), js.v))
     ELSE IF allow_unmatched_primary_path
       THEN Some(Parser("JsonParser", metadata_path, sibling, js.v))
     ELSE None

\* datetime.strptime(s, "%Y-%m-%dT%H:%M:%S.%fZ"): a naive datetime whose
\* fields are those written in s.  A value of the field is [k, n]: k = "iso"
\* when the string has the format and n the instant (UTC) it denotes.
Strptime(v) ==
  IF v.k = "iso" THEN [err |-> "none", naive |-> v.n]
  ELSE [err |-> "ValueError", naive |-> 0]

\* naive datetime.timestamp(): the fields read as local time, so the epoch
\* value is the one read as UTC less the local UTC offset
NaiveTimestamp(naive, offset) == naive - offset

\* float(x): a number or a numeric string gives its value
Float(v) ==
  IF v.k \in {"num", "str"} THEN [err |-> "none", x |-> v.n]
  ELSE [err |-> "ValueError", x |-> 0]

\* JsonParser.apply_modify_timestamp
ApplyModifyTimestamp(f, primary_path, timestamp) ==
  IF Exists(f, primary_path)
  THEN [ok |-> TRUE, fs |-> Utime(f, primary_path, timestamp)]
  ELSE [ok |-> FALSE, fs |-> f]

\* 'k' in d and 'timestamp' in d['k']
HasTimestamp(o) == Has(o) /\ Has(Val(o).timestamp)

FloatTimestamp(f, primary_path, o) ==
  LET x == Float(Val(Val(o).timestamp))
  IN IF x.err # "none" THEN [ok |-> FALSE, fs |-> f]
     ELSE ApplyModifyTimestamp(f, primary_path, x.x)

\* JsonParser.apply_metadata_to_primary: [ok, fs]
JsonApply(f, offset, parser) ==
  LET data == parser.data
      primary == parser.primary_path
  IN IF Has(data.last_modified_by_any_user)
     THEN LET t == Strptime(Val(data.last_modified_by_any_user))
          IN IF t.err # "none" THEN [ok |-> FALSE, fs |-> f]
             ELSE ApplyModifyTimestamp(f, primary, NaiveTimestamp(t.naive, offset))
     ELSE IF HasTimestamp(data.photoTakenTime)
     THEN FloatTimestamp(f, primary, data.photoTakenTime)
     ELSE IF HasTimestamp(data.date)
     THEN FloatTimestamp(f, primary, data.date)
     ELSE IF Has(data.albumData) /\ HasTimestamp(Val(data.albumData).date)
     THEN FloatTimestamp(f, primary, Val(data.albumData).date)
     ELSE [ok |-> FALSE, fs |-> f]

\* CommentsHtmlParser.TitleParser: an HTML text is the sequence of events
\* the tokenizer hands to the handlers: [ev |-> "start"/"end", tag] or
\* [ev |-> "data", text].  The state is [path, title, err].
HandleEvent(st, e) ==
  IF st.err # "none" THEN st
  ELSE CASE e.ev = "start" -> [st EXCEPT !.path = Append(st.path, e.tag)]
         [] e.ev = "end" ->
              IF st.path = <<>> THEN [st EXCEPT !.err = "IndexError"]
              ELSE [st EXCEPT !.path = SubSeq(st.path, 1, Len(st.path) - 1)]
         [] e.ev = "data" ->
              IF st.path = <<"html", "title">>
              THEN [st EXCEPT !.title = Some(e.text)]
              ELSE st

RECURSIVE Feed(_, _)
Feed(st, events) ==
  IF events = <<>> THEN st ELSE Feed(HandleEvent(st, Head(events)), Tail(events))

\* CommentsHtmlParser.create: None or Some(parser)
HtmlCreate(f, metadata_path, allow_unmatched_primary_path) ==
  LET rd == ReadText(f, metadata_path)
      events == IF rd.text.fmt = "html" THEN rd.text.events ELSE <<>>
      st == Feed([path |-> <<>>, title |-> None, err |-> "none"], events)
      sibling == Joinpath(Parent(metadata_path), Val(st.title))
      parser == Parser("CommentsHtmlParser", metadata_path, sibling, [kind |-> "none"])
  IN IF rd.err # "none" \/ st.err # "none" THEN None
     ELSE IF ~Has(st.title) THEN None
     ELSE IF Exists(f, sibling) THEN Some(parser)
     ELSE IF allow_unmatched_primary_path THEN Some(parser)
     ELSE None

HtmlApplyTouching(f, parser) ==
  IF Exists(f, parser.primary_path)
  THEN [ok |-> TRUE, fs |-> Utime(f, parser.primary_path, 1)]
  ELSE [ok |-> FALSE, fs |-> f]

\* CommentsHtmlParser.apply_metadata_to_primary: [ok, fs]
HtmlApply(f, parser) == [ok |-> Exists(f, parser.primary_path), fs |-> f]

\* metadata_parsers and each class's get_compatible_suffixes()
MetadataParsers == <<"JsonParser", "CommentsHtmlParser">>
CompatibleSuffixes(cls) ==
  IF cls = "JsonParser" THEN <<DotJson>> ELSE <<DotHtml>>

Create(cls, f, metadata_path, allow) ==
  IF cls = "JsonParser" THEN JsonCreate(f, metadata_path, allow)
  ELSE HtmlCreate(f, metadata_path, allow)

ApplyMetadataToPrimary(f, offset, parser) ==
  IF parser.cls = "JsonParser" THEN JsonApply(f, offset, parser)
  ELSE HtmlApply(f, parser)

\* ------------------------------------------------------------- the program
\* get_depth_first_directories: the generator is the stack of its suspended
\* frames [path, entries, i]; i = 0 is a frame whose body has not started.
Frame(path) == [path |-> path, entries |-> <<>>, i |-> 0]

\* next(generator): runs to the next yield, [done, path, stack]
RECURSIVE Resume(_, _, _)
Resume(stack, f, ord) ==
  IF stack = <<>> THEN [done |-> TRUE, path |-> <<>>, stack |-> <<>>]
  ELSE LET top == stack[Len(stack)]
           rest == SubSeq(stack, 1, Len(stack) - 1)
       IN IF top.i = 0
          THEN IF IsDir(f, top.path)
               THEN Resume(Append(rest, [top EXCEPT !.entries = Sorted(Iterdir(f, ord, top.path)),
                                                    !.i = 1]), f, ord)
               ELSE Resume(rest, f, ord)
          ELSE IF top.i <= Len(top.entries)
          THEN Resume(Append(Append(rest, [top EXCEPT !.i = @ + 1]),
                             Frame(top.entries[top.i])), f, ord)
          ELSE [done |-> FALSE, path |-> top.path, stack |-> rest]

\* the comprehension of fix_metadata that builds parsers, innermost loop first
RECURSIVE ForSuffixes(_, _, _, _, _)
ForSuffixes(cls, suffixes, f, item, allow) ==
  IF suffixes = <<>> THEN <<>>
  ELSE (IF EndsWith(Name(item), Head(suffixes)) THEN Create(cls, f, item, allow) ELSE <<>>)
       \o ForSuffixes(cls, Tail(suffixes), f, item, allow)

RECURSIVE ForClasses(_, _, _, _)
ForClasses(classes, f, item, allow) ==
  IF classes = <<>> THEN <<>>
  ELSE ForSuffixes(Head(classes), CompatibleSuffixes(Head(classes)), f, item, allow)
       \o ForClasses(Tail(classes), f, item, allow)

RECURSIVE BuildParsers(_, _, _)
BuildParsers(items, f, allow) ==
  IF items = <<>> THEN <<>>
  ELSE ForClasses(MetadataParsers, f, Head(items), allow)
       \o BuildParsers(Tail(items), f, allow)

MoveMetadataFileFlat(f, metadata_path, source_directory, destination) ==
  LET new == Append(destination, Name(metadata_path))
      md == MakeDirs(f, Parent(new))
      rn == Rename(md.fs, metadata_path, new)
  IN IF md.err # "none" THEN [err |-> md.err, fs |-> md.fs, new |-> metadata_path]
     ELSE [err |-> rn.err, fs |-> rn.fs, new |-> new]

\* move_metadata_file: [err, fs, new]
MoveMetadataFile(f, metadata_path, source_directory, destination) ==
  LET new == destination \o RelativeTo(metadata_path, source_directory)
      md == MakeDirs(f, Parent(new))
      rn == Rename(md.fs, metadata_path, new)
  IN IF ~IsUnder(metadata_path, source_directory)
     THEN [err |-> "ValueError", fs |-> f, new |-> metadata_path]
     ELSE IF md.err # "none" THEN [err |-> md.err, fs |-> md.fs, new |-> metadata_path]
     ELSE [err |-> rn.err, fs |-> rn.fs, new |-> new]

MoveConditionAppliedOnly(is_applied, dest, move_for_missing_primary) ==
  is_applied /\ Has(dest)

\* `is_applied and metadata_destination_directory or move_for_missing_primary`
\* (a Path is always truthy, None never)
MoveCondition(is_applied, dest, move_for_missing_primary) ==
  (is_applied /\ Has(dest)) \/ move_for_missing_primary

\* main() up to the call of fix_metadata
Main ==
  /\ pc = "start"
  /\ LET src == MakeDirs(fs, argv.source)
         dst == IF Has(argv.dest) THEN MakeDirs(src.fs, Val(argv.dest))
                ELSE [fs |-> src.fs, err |-> "none"]
     IN IF src.err # "none"
        THEN /\ pc' = "crashed" /\ fs' = src.fs /\ walk' = <<>>
        ELSE IF dst.err # "none"
        THEN /\ pc' = "crashed" /\ fs' = dst.fs /\ walk' = <<>>
        ELSE IF argv.move_unmatched /\ ~Has(argv.dest)
        THEN /\ pc' = "rejected" /\ fs' = dst.fs /\ walk' = <<>>
        ELSE /\ pc' = "walk" /\ fs' = dst.fs /\ walk' = <<Frame(argv.source)>>
  /\ UNCHANGED <<listing, tz, argv, directory, parsers, idx, stdout, stderr,
                 yielded, moved, runs, fs0, log>>

\* fix_metadata: the head of `for directory in ...` and the two comprehensions
WalkDirectory ==
  /\ pc = "walk"
  /\ LET r == Resume(walk, fs, listing)
         ps == BuildParsers(Iterdir(fs, listing, r.path), fs, argv.move_unmatched)
     IN IF r.done
        THEN /\ pc' = "done"
             /\ walk' = <<>>
             /\ UNCHANGED <<directory, parsers, idx, yielded>>
        ELSE /\ walk' = r.stack
             /\ directory' = r.path
             /\ yielded' = Append(yielded, r.path)
             /\ parsers' = ps
             /\ idx' = 1
             /\ pc' = IF ps = <<>> THEN "walk" ELSE "apply"
  /\ UNCHANGED <<fs, listing, tz, argv, stdout, stderr, moved, runs, fs0, log>>

\* where control goes after the body of the for-loop over parsers: the
\* `except Exception` clause keeps an error from leaving the iteration
AfterRecordUncaught(err, i, n) ==
  IF err # "none" THEN "crashed" ELSE IF i = n THEN "walk" ELSE "apply"

AfterRecord(err, i, n) == IF i = n THEN "walk" ELSE "apply"

\* fix_metadata: one iteration of `for metadata_parser in parsers`
ApplyRecord ==
  /\ pc = "apply"
  /\ LET parser == parsers[idx]
         ap == ApplyMetadataToPrimary(fs, tz, parser)
         attempt == MoveCondition(ap.ok, argv.dest, argv.move_unmatched)
         mv == IF ~attempt THEN [err |-> "none", fs |-> ap.fs, new |-> parser.metadata_path]
               ELSE IF ~Has(argv.dest)
               THEN [err |-> "AssertionError", fs |-> ap.fs, new |-> parser.metadata_path]
               ELSE MoveMetadataFile(ap.fs, parser.metadata_path, argv.source, Val(argv.dest))
     IN /\ fs' = mv.fs
        /\ stdout' = IF ap.ok
                     THEN Append(stdout, [primary |-> parser.primary_path,
                                          metadata |-> parser.metadata_path])
                     ELSE stdout
        /\ stderr' = IF mv.err # "none"
                     THEN Append(stderr, [path |-> parser.metadata_path, error |-> mv.err])
                     ELSE stderr
        /\ parsers' = [parsers EXCEPT ![idx].metadata_path = mv.new]
        /\ moved' = IF attempt /\ mv.err = "none"
                    THEN Append(moved, <<parser.metadata_path, mv.new>>)
                    ELSE moved
        /\ log' = Append(log, [parser |-> parser, ok |-> ap.ok, attempted |-> attempt,
                                err |-> mv.err])
        /\ pc' = AfterRecord(mv.err, idx, Len(parsers))
  /\ idx' = idx + 1
  /\ UNCHANGED <<listing, tz, argv, walk, directory, yielded, runs, fs0>>

\* the tool is started again on the tree the previous run left
Rerun ==
  /\ pc = "done"
  /\ runs < MaxRuns
  /\ runs' = runs + 1
  /\ pc' = "start"
  /\ fs0' = fs
  /\ stdout' = <<>>
  /\ stderr' = <<>>
  /\ yielded' = <<>>
  /\ moved' = <<>>
  /\ parsers' = <<>>
  /\ idx' = 1
  /\ directory' = <<>>
  /\ log' = <<>>
  /\ UNCHANGED <<fs, listing, tz, argv, walk>>

Next == Main \/ WalkDirectory \/ ApplyRecord \/ Rerun

\* ------------------------------------------------------------------ inputs
SourceDir == << <<"S">> >>
DestDir == << <<"D">> >>
DirA == Append(SourceDir, <<"A">>)
DirB == Append(SourceDir, <<"B">>)
DirAB == Append(DirA, <<"B">>)
AJson == Ext(<<"a">>, DotJson)
BJson == Ext(<<"b">>, DotJson)
CHtml == Ext(<<"c">>, DotHtml)
Quoted == <<"'", "/">>

Num(n) == [k |-> "num", n |-> n]
NumStr(n) == [k |-> "str", n |-> n]
NotANumber == [k |-> "bad", n |-> 0]
Iso(n) == [k |-> "iso", n |-> n]
Stamp(t) == Some([timestamp |-> t])
AlbumData(title, date) == Some([title |-> title, date |-> date])
Object(title, albumData, lmu, ptt, date) ==
  [fmt |-> "json",
   doc |-> [kind |-> "object", title |-> title, albumData |-> albumData,
            last_modified_by_any_user |-> lmu, photoTakenTime |-> ptt, date |-> date]]
InvalidJson == [fmt |-> "json", doc |-> [kind |-> "invalid"]]
NullJson == [fmt |-> "json", doc |-> [kind |-> "null"]]

Start(tag) == [ev |-> "start", tag |-> tag]
End(tag) == [ev |-> "end", tag |-> tag]
Data(text) == [ev |-> "data", text |-> text]
Html(events) == [fmt |-> "html", events |-> events]
\* <html><title>t</title></html>
TitledHtml(t) ==
  Html(<<Start("html"), Start("title"), Data(t), End("title"), End("html")>>)
\* <html><head><title>t</title></head></html>
HeadTitledHtml(t) ==
  Html(<<Start("html"), Start("head"), Start("title"), Data(t), End("title"),
         End("head"), End("html")>>)

\* {"title": "'/", "photoTakenTime": {"timestamp": "20"}}
PhotoDoc == Object(Some(Quoted), None, None, Stamp(Some(NumStr(20))), None)

\* documents of the trees on which whole runs are explored
RunDocs ==
  { PhotoDoc,
    Object(None, AlbumData(Some(<<"A">>), Stamp(Some(Num(40)))), None, None, None),
    Object(Some(Quoted), None, None, None, None),
    InvalidJson,
    TitledHtml(<<"_", "-">>),
    HeadTitledHtml(<<"_", "-">>) }

\* documents on which the JSON matcher and applicator are explored
JsonDocs ==
  { Object(t, a, l, p, d) :
      t \in {None, Some(<<>>), Some(Quoted), Some(<<"A">>)},
      a \in {None} \cup
            { AlbumData(at, ad) :
                at \in {None, Some(<<"A">>), Some(Quoted)},
                ad \in {None, Stamp(Some(Num(40)))} },
      l \in {None, Some(Iso(10)), Some([k |-> "bad", n |-> 0])},
      p \in {None, Stamp(None), Stamp(Some(NumStr(20))), Stamp(Some(NotANumber))},
      d \in {None, Stamp(Some(Num(30)))} }
  \cup {InvalidJson, NullJson}

\* documents on which the HTML matcher is explored
HtmlDocs ==
  UNION { { TitledHtml(t), HeadTitledHtml(t),
            Html(<<Start("title"), Data(t), End("title")>>),
            Html(<<Start("html"), Data(t), End("html")>>),
            Html(<<Start("html"), Start("title"), End("title"), End("html")>>),
            Html(<<Start("html"), Start("title"), Data(t), End("title"), End("html"),
                   End("body")>>),
            Html(<<End("p"), Start("html"), Start("title"), Data(t), End("title")>>),
            Html(<<Start("html"), Start("title"), Data(<<"z">>), End("title"),
                   Start("title"), Data(t), End("title"), End("html")>>),
            Html(<<Start("html"), Start("meta"), Start("title"), Data(t), End("title"),
                   End("html")>>) } :
          t \in {<<"_", "-">>, <<"A">>, <<"z">>} }

Compatible(path, data) ==
  \/ EndsWith(Name(path), DotJson) /\ data.fmt = "json"
  \/ EndsWith(Name(path), DotHtml) /\ data.fmt = "html"

\* the filesystem with the directories dirs and the files given by content
MkFs(dirs, content) ==
  [p \in dirs \cup DOMAIN content |->
     IF p \in dirs THEN DirNode ELSE FileNode(content[p])]

Binary == [fmt |-> "binary"]

\* what the destination holds before the run: nothing (it does not exist),
\* a file where a directory of the mirror is needed, or a directory where a
\* metadata file is to go
DestStates ==
  { MkFs({}, <<>>),
    MkFs({DestDir}, [p \in {Append(DestDir, <<"A">>)} |-> Binary]),
    MkFs({DestDir, Append(DestDir, <<"A">>), DestDir \o << <<"A">>, AJson >>}, <<>>) }

Merge(f, g) == [p \in DOMAIN f \cup DOMAIN g |-> IF p \in DOMAIN f THEN f[p] ELSE g[p]]

\* (destination argument, move-unmatched flag, destination state)
Invocations ==
  { [dest |-> None, move_unmatched |-> u, dfs |-> MkFs({}, <<>>)] : u \in BOOLEAN }
  \cup { [dest |-> Some(DestDir), move_unmatched |-> u, dfs |-> d] :
           u \in BOOLEAN, d \in DestStates }

InitControl ==
  /\ pc = "start"
  /\ walk = <<>>
  /\ directory = <<>>
  /\ parsers = <<>>
  /\ idx = 1
  /\ stdout = <<>>
  /\ stderr = <<>>
  /\ yielded = <<>>
  /\ moved = <<>>
  /\ runs = 1
  /\ fs0 = fs
  /\ log = <<>>

\* source trees: the directory skeletons, up to MaxSidecars metadata files
\* in the root and in A, and any of the primaries
Skeletons == { {SourceDir, DirA} }
Slots == { Append(SourceDir, AJson), Append(DirA, AJson), Append(DirA, BJson),
           Append(DirA, CHtml) }
Primaries == { Append(DirA, <<"_", "-">>), Append(DirA, <<"A">>) }

SourceTrees ==
  { MkFs({}, <<>>) } \cup
  UNION { UNION { { Merge(MkFs(dirs, content), MkFs({}, [p \in prim |-> Binary])) :
                    content \in { c \in [slots -> RunDocs] :
                                    \A p \in slots : Compatible(p, c[p]) } } :
                  slots \in { P \in SUBSET Slots : Cardinality(P) <= MaxSidecars },
                  prim \in SUBSET Primaries } :
          dirs \in Skeletons }

Init ==
  /\ \E tree \in SourceTrees, inv \in Invocations :
       /\ fs = Merge(tree, inv.dfs)
       /\ argv = [source |-> SourceDir, dest |-> inv.dest,
                  move_unmatched |-> inv.move_unmatched]
  /\ listing \in {"asc", "desc"}
  /\ tz \in {0}
  /\ InitControl

Spec == Init /\ [][Next]_vars

\* The same program on three other families of inputs.

\* destination absent or given (and then not yet existing), move-unmatched
\* only with a destination
PlainInvocations ==
  { inv \in Invocations : inv.dfs = MkFs({}, <<>>) /\ (inv.move_unmatched => Has(inv.dest)) }

InitOn(trees, invocations, listings, offsets) ==
  /\ \E tree \in trees, inv \in invocations :
       /\ fs = Merge(tree, inv.dfs)
       /\ argv = [source |-> SourceDir, dest |-> inv.dest,
                  move_unmatched |-> inv.move_unmatched]
  /\ listing \in listings
  /\ tz \in offsets
  /\ InitControl

\* one metadata file A/a.json holding any of JsonDocs, any of the primaries,
\* on a machine at UTC or one hour east of it
JsonTrees ==
  { Merge(MkFs({SourceDir, DirA}, [p \in {Append(DirA, AJson)} |-> doc]),
          MkFs({}, [p \in prim |-> Binary])) :
      doc \in JsonDocs, prim \in SUBSET Primaries }

InitJson == InitOn(JsonTrees, PlainInvocations, {"asc"}, {0, 1})

SpecJson == InitJson /\ [][Next]_vars

\* one metadata file A/c.html holding any of HtmlDocs, any of the primaries
HtmlTrees ==
  { Merge(MkFs({SourceDir, DirA}, [p \in {Append(DirA, CHtml)} |-> doc]),
          MkFs({}, [p \in prim |-> Binary])) :
      doc \in HtmlDocs, prim \in SUBSET Primaries }

InitHtml == InitOn(HtmlTrees, PlainInvocations, {"asc", "desc"}, {0})

SpecHtml == InitHtml /\ [][Next]_vars

\* directory trees of every shape over A, B, A/A, A/B, B/A, A/B/A, with
\* plain files among the directories and at most one metadata file
WalkDirs ==
  { DirA, DirB, Append(DirA, <<"A">>), DirAB, Append(DirB, <<"A">>),
    Append(DirAB, <<"A">>) }
WalkFiles ==
  { Append(SourceDir, <<"A", "B">>), Append(SourceDir, <<"_", "-">>),
    Append(DirA, <<"_", "-">>) }
WalkShapes ==
  { sh \in [dirs : SUBSET WalkDirs, files : SUBSET WalkFiles,
            side : SUBSET {Append(DirA, AJson)}] :
      /\ \A d \in sh.dirs : Parent(d) \in {SourceDir} \cup sh.dirs
      /\ \A q \in sh.files \cup sh.side : Parent(q) \in {SourceDir} \cup sh.dirs }
WalkTrees ==
  { Merge(MkFs({SourceDir} \cup sh.dirs,
               [p \in sh.side |-> PhotoDoc]),
          MkFs({}, [p \in sh.files |-> Binary])) :
      sh \in WalkShapes }

InitWalk == InitOn(WalkTrees, PlainInvocations, {"asc", "desc"}, {0})

SpecWalk == InitWalk /\ [][Next]_vars

\* ------------------------------------------- what the specification states
\* The statements below are written from the specification's words, not
\* from the operators above.

IsMetadataName(n) == EndsWith(n, DotJson) \/ EndsWith(n, DotHtml)

\* the metadata files of the source tree in filesystem f
MetadataFiles(f) ==
  { p \in DOMAIN f : IsUnder(p, argv.source) /\ p # argv.source
                     /\ f[p].kind = "file" /\ IsMetadataName(Name(p)) }

\* the mirrored path of m under the destination root
Mirror(m) == Val(argv.dest) \o SubSeq(m, Len(argv.source) + 1, Len(m))

Relocated(m) == \E i \in DOMAIN moved : moved[i][1] = m
HasParser(m) == \E i \in DOMAIN log : log[i].parser.metadata_path = m
Applied(m) == \E i \in DOMAIN log : log[i].parser.metadata_path = m /\ log[i].ok
Reported(m) == \E j \in DOMAIN stderr : stderr[j].path = m

\* apostrophe -> underscore, slash -> hyphen
SpecSanitized(t) ==
  [i \in 1..Len(t) |-> IF t[i] = "'" THEN "_" ELSE IF t[i] = "/" THEN "-" ELSE t[i]]

\* the title of a document: for JSON the top-level title, else
\* albumData.title, sanitized; for HTML the text of html > title
SpecTitle(data) ==
  IF data.fmt = "json"
  THEN IF data.doc.kind # "object" THEN None
       ELSE IF Has(data.doc.title) /\ Val(data.doc.title) # <<>>
            THEN Some(SpecSanitized(Val(data.doc.title)))
       ELSE IF Has(data.doc.albumData) /\ Has(Val(data.doc.albumData).title)
            THEN Some(SpecSanitized(Val(Val(data.doc.albumData).title)))
       ELSE None
  ELSE IF data.fmt = "html"
  THEN IF /\ Len(data.events) >= 3
          /\ data.events[1] = Start("html")
          /\ data.events[2] = Start("title")
          /\ data.events[3].ev = "data"
       THEN Some(data.events[3].text)
       ELSE None
  ELSE None

\* the primary the matcher is to resolve for metadata file m of filesystem f
SpecPrimary(f, m, allow) ==
  LET t == SpecTitle(f[m].data)
      sibling == Parent(m) \o t
  IN IF ~Has(t) THEN None
     ELSE IF sibling \in DOMAIN f THEN Some(sibling)
     ELSE IF f[m].data.fmt = "json" /\ Parent(m)[Len(m) - 1] = Val(t) THEN Some(Parent(m))
     ELSE IF allow THEN Some(sibling)
     ELSE None

\* the epoch seconds of the highest-priority numeric timestamp field
SpecNumericTimestamp(doc) ==
  IF Has(doc.photoTakenTime) /\ Has(Val(doc.photoTakenTime).timestamp)
  THEN Val(doc.photoTakenTime).timestamp
  ELSE IF Has(doc.date) /\ Has(Val(doc.date).timestamp)
  THEN Val(doc.date).timestamp
  ELSE IF /\ Has(doc.albumData)
          /\ Has(Val(doc.albumData).date)
          /\ Has(Val(Val(doc.albumData).date).timestamp)
  THEN Val(Val(doc.albumData).date).timestamp
  ELSE None

\* ------------------------------------------------------------------ claims

\* C3 (as stated): at the end of a run in which no relocation raised, a
\* metadata file has been relocated exactly when (a) its apply succeeded and
\* a destination is configured, or (b) its apply failed or no match occurred
\* and move-unmatched is enabled.
C3_RelocatedExactlyWhen ==
  (pc = "done" /\ stderr = <<>>) =>
    \A m \in MetadataFiles(fs0) :
      Relocated(m) <=> \/ Applied(m) /\ Has(argv.dest)
                       \/ ~Applied(m) /\ argv.move_unmatched /\ Has(argv.dest)

\* C3 (amended): a metadata file is relocated exactly when a parser was
\* created for it and ((its apply succeeded and a destination is configured)
\* or move-unmatched is enabled) and the relocation did not raise.  With
\* move-unmatched a parser is created for every document that yields a title;
\* a document that yields none (parse failure, no title) gets no parser and
\* its file stays where it is.  A file that is not relocated is not moved.
C3_RelocatedWhenParserAndPolicy ==
  pc = "done" =>
    \A m \in MetadataFiles(fs0) :
      /\ Relocated(m) <=> /\ HasParser(m)
                          /\ (Applied(m) /\ Has(argv.dest)) \/ argv.move_unmatched
                          /\ ~Reported(m)
      /\ ~Has(SpecTitle(fs0[m].data)) => ~HasParser(m)
      /\ (argv.move_unmatched /\ Has(SpecTitle(fs0[m].data))) => HasParser(m)
      /\ Relocated(m) => Mirror(m) \in DOMAIN fs /\ m \notin DOMAIN fs
      /\ ~Relocated(m) => m \in DOMAIN fs /\ fs[m].data = fs0[m].data

\* C3 witness: a run with move-unmatched ended with one metadata file left
\* in place for want of a parser and another, not applied, relocated
C3_Witness ==
  /\ pc = "done"
  /\ argv.move_unmatched
  /\ \E m \in MetadataFiles(fs0) : ~HasParser(m) /\ ~Relocated(m)
  /\ \E m \in MetadataFiles(fs0) : HasParser(m) /\ ~Applied(m) /\ Relocated(m)

\* C4: every relocated metadata file is at the destination root joined with
\* its path relative to the source root, under directories created as needed,
\* and no longer at its source path; no two relocations share a destination.
C4_RelocationPreservesRelativePath ==
  /\ \A i \in DOMAIN moved :
       LET from == moved[i][1]
           to == moved[i][2]
       IN /\ to = Mirror(from)
          /\ to \in DOMAIN fs /\ fs[to].kind = "file" /\ fs[to].data = fs0[from].data
          /\ from \notin DOMAIN fs
          /\ \A k \in 1..(Len(to) - 1) : IsDir(fs, SubSeq(to, 1, k))
  /\ \A i, j \in DOMAIN moved : i # j => moved[i][2] # moved[j][2]

\* C4 witness: two metadata files of the same name, from different
\* directories, have been relocated
C4_Witness ==
  \E i, j \in DOMAIN moved :
    i # j /\ Name(moved[i][1]) = Name(moved[j][1]) /\ Len(moved[i][1]) # Len(moved[j][1])

\* C5 (as stated): when main rejects move-unmatched without a destination,
\* nothing has happened to the filesystem: no directory created or walked,
\* no timestamp set, no file moved.
C5_NothingBeforeRejection ==
  pc = "rejected" => fs = fs0 /\ yielded = <<>> /\ moved = <<>> /\ log = <<>>

\* C7: with no destination, at the end of a second (or later) run the
\* filesystem - every path, every node, every timestamp - is what the
\* previous run left, and the run reported no error.
C7_SecondRunChangesNothing ==
  (pc = "done" /\ runs >= 2 /\ ~Has(argv.dest)) => fs = fs0 /\ stderr = <<>>

\* C7 witness: a second run without destination ended on a tree in which
\* the first run had fixed a timestamp
C7_Witness ==
  /\ pc = "done" /\ runs = 2 /\ ~Has(argv.dest)
  /\ stdout # <<>>
  /\ \E p \in DOMAIN fs : fs[p].mtime # 0

\* C10 (as stated): every parser whose apply failed has a report on the
\* error channel naming its primary (or its metadata file).
C10_ApplyFailureReported ==
  \A i \in DOMAIN log :
    ~log[i].ok =>
      \E j \in DOMAIN stderr :
        stderr[j].path \in {log[i].parser.primary_path, log[i].parser.metadata_path}

\* C9: nothing escapes the per-record steps, every directory is processed,
\* and at the end of a run the outcome of every metadata file is the one its
\* own document and its own primary determine, whatever happened to the
\* other files: a parser iff the matcher resolves a primary, applied iff that
\* primary exists and the document carries a timestamp, the primary's modify
\* time one of the timestamps of the documents applied to it, and relocated
\* (or its relocation reported as failed) where due.
C9_FailuresDoNotSpread ==
  /\ pc = "crashed" => log = <<>> /\ yielded = <<>>
  /\ pc = "done" =>
       /\ \A d \in DOMAIN fs :
            (IsDir(fs, d) /\ IsUnder(d, argv.source)) => \E i \in DOMAIN yielded : yielded[i] = d
       /\ \A m \in MetadataFiles(fs0) :
            LET Due(x) ==
                  LET prim == SpecPrimary(fs0, x, argv.move_unmatched)
                      json == fs0[x].data.fmt = "json"
                      ts == IF json /\ fs0[x].data.doc.kind = "object"
                            THEN SpecNumericTimestamp(fs0[x].data.doc) ELSE None
                  IN [prim |-> prim, json |-> json, ts |-> ts,
                      applies |-> /\ Has(prim)
                                  /\ Val(prim) \in DOMAIN fs0
                                  /\ json => Has(ts) /\ Val(ts).k # "bad"]
                due == Due(m)
            IN /\ HasParser(m) <=> Has(due.prim)
               /\ Applied(m) <=> due.applies
               /\ (due.applies /\ due.json) =>
                    fs[Val(due.prim)].mtime \in
                      { Val(Due(x).ts).n : x \in { y \in MetadataFiles(fs0) :
                                                    /\ Due(y).applies /\ Due(y).json
                                                    /\ Due(y).prim = due.prim } }
               /\ (Has(due.prim) /\ ((due.applies /\ Has(argv.dest)) \/ argv.move_unmatched))
                    => Relocated(m) \/ Reported(m)

\* C9 witness: in one directory the relocation of one metadata file raised
\* and a later one was applied and relocated
C9_Witness ==
  /\ pc = "done"
  /\ \E i, j \in DOMAIN log :
       /\ i < j
       /\ Parent(log[i].parser.metadata_path) = Parent(log[j].parser.metadata_path)
       /\ log[i].err # "none"
       /\ log[j].ok /\ log[j].err = "none" /\ Relocated(log[j].parser.metadata_path)

\* C1: for a JSON metadata file with a title T, the parser created for it has
\* as primary the sibling T if it exists, else the containing directory if
\* its name is T, else the missing sibling T if unmatched primaries are
\* allowed; else no parser is created.
C1_ResolutionOrder ==
  (pc \in {"apply", "walk"} /\ idx = 1 /\ directory # <<>>) =>
    \A m \in MetadataFiles(fs) :
      (Parent(m) = directory /\ fs[m].data.fmt = "json" /\ Has(SpecTitle(fs[m].data))) =>
        LET T == Val(SpecTitle(fs[m].data))
            sibling == Append(directory, T)
            found == { parsers[i].primary_path :
                         i \in { k \in DOMAIN parsers : parsers[k].metadata_path = m } }
        IN found = IF sibling \in DOMAIN fs THEN {sibling}
                   ELSE IF directory[Len(directory)] = T THEN {directory}
                   ELSE IF argv.move_unmatched THEN {sibling}
                   ELSE {}

\* C1 witness: with unmatched primaries allowed, a parser has been created
\* whose primary is the containing directory
C1_Witness ==
  /\ pc = "apply" /\ idx = 1 /\ argv.move_unmatched
  /\ parsers[1].cls = "JsonParser" /\ parsers[1].primary_path = directory

\* C2 (as stated): after the apply of a JSON parser whose primary exists, the
\* primary's access and modify time are the timestamp the highest-priority
\* field present denotes (last_modified_by_any_user, an ISO-8601 string with
\* Z suffix, denotes an instant of UTC), and the apply succeeded; with none
\* of the four fields, or no primary, the apply failed and the primary is as
\* the run found it.  (A present field that does not decode is left out.)
C2_HighestPriorityTimestamp ==
  \A i \in DOMAIN log :
    (i = Len(log) /\ log[i].parser.cls = "JsonParser") =>
      LET doc == log[i].parser.data
          primary == log[i].parser.primary_path
          lmu == doc.last_modified_by_any_user
          num == SpecNumericTimestamp(doc)
      IN IF primary \notin DOMAIN fs THEN ~log[i].ok
         ELSE IF Has(lmu)
         THEN Val(lmu).k = "iso" =>
                /\ log[i].ok
                /\ fs[primary].mtime = Val(lmu).n /\ fs[primary].atime = Val(lmu).n
         ELSE IF Has(num)
         THEN Val(num).k # "bad" =>
                /\ log[i].ok
                /\ fs[primary].mtime = Val(num).n /\ fs[primary].atime = Val(num).n
         ELSE ~log[i].ok /\ fs[primary] = fs0[primary]

\* C6: the directories yielded so far are distinct directories of the source
\* tree, none is yielded after one of its ancestors, two that lie in
\* different subtrees of a common directory come in the lexicographic order
\* of the names of those subtrees, every directory has been yielded when the
\* run ends (the root last), and a directory is yielded only when every
\* parser of the previous one has been processed.
C6_PostOrderWalk ==
  /\ \A i \in DOMAIN yielded : IsDir(fs, yielded[i]) /\ IsUnder(yielded[i], argv.source)
  /\ \A i, j \in DOMAIN yielded :
       i < j =>
         /\ yielded[i] # yielded[j]
         /\ ~IsUnder(yielded[j], yielded[i])
         /\ ~IsUnder(yielded[i], yielded[j]) =>
              LET k == CHOOSE n \in 1..Len(yielded[i]) :
                         /\ yielded[i][n] # yielded[j][n]
                         /\ SubSeq(yielded[i], 1, n - 1) = SubSeq(yielded[j], 1, n - 1)
              IN StrLess(yielded[i][k], yielded[j][k])
  /\ pc = "done" =>
       /\ \A d \in DOMAIN fs :
            (IsDir(fs, d) /\ IsUnder(d, argv.source)) => \E i \in DOMAIN yielded : yielded[i] = d
       /\ yielded[Len(yielded)] = argv.source
  /\ pc \in {"walk", "done"} => idx = Len(parsers) + 1
  /\ \A i \in DOMAIN log :
       \E k \in DOMAIN yielded :
         /\ yielded[k] = Parent(log[i].parser.metadata_path)
         /\ \A j \in DOMAIN log :
              i < j => \E n \in k..Len(yielded) : yielded[n] = Parent(log[j].parser.metadata_path)
  /\ pc = "apply" =>
       /\ directory = yielded[Len(yielded)]
       /\ \A i \in idx..Len(parsers) : Parent(parsers[i].metadata_path) = directory

\* C6 witness: a run ended having yielded two sibling directories and a
\* directory two levels down
C6_Witness ==
  /\ pc = "done"
  /\ \E i, j, k \in DOMAIN yielded :
       /\ i # j /\ Parent(yielded[i]) = Parent(yielded[j])
       /\ Len(yielded[k]) = Len(argv.source) + 2
  /\ log # <<>>

\* C8: the HTML variant: a parser is created only for a sibling named by a
\* text of the document that exists (or, when unmatched primaries are
\* allowed, need not exist); for <html><title>t</title></html> it is created
\* exactly then and for the sibling t; for a document with no text in a
\* title directly under html none is created; apply succeeds exactly when
\* the primary exists; and no node of the filesystem changes its times or
\* content, nor its path except a metadata file relocated after its apply.
C8_HtmlNeverMutates ==
  /\ (pc \in {"apply", "walk"} /\ idx = 1 /\ directory # <<>>) =>
       \A m \in MetadataFiles(fs) :
         (Parent(m) = directory /\ fs[m].data.fmt = "html") =>
           LET events == fs[m].data.events
               found == { parsers[i].primary_path :
                            i \in { k \in DOMAIN parsers : parsers[k].metadata_path = m } }
               direct == { i \in 1..(Len(events) - 2) :
                             /\ events[i] = Start("html")
                             /\ events[i + 1] = Start("title")
                             /\ events[i + 2].ev = "data" }
           IN /\ \A x \in found :
                   /\ x \in DOMAIN fs \/ argv.move_unmatched
                   /\ \E i \in DOMAIN events :
                        events[i].ev = "data" /\ x = Append(directory, events[i].text)
              /\ direct = {} => found = {}
              /\ (1 \in direct /\ fs[m].data = TitledHtml(events[3].text)) =>
                   found = IF \/ Append(directory, events[3].text) \in DOMAIN fs
                              \/ argv.move_unmatched
                           THEN {Append(directory, events[3].text)} ELSE {}
  /\ \A i \in DOMAIN log :
       log[i].parser.cls = "CommentsHtmlParser" =>
         (log[i].ok <=> log[i].parser.primary_path \in DOMAIN fs)
  /\ \A p \in DOMAIN fs0 :
       IF p \in DOMAIN fs THEN fs[p] = fs0[p]
       ELSE Relocated(p) /\ fs[Mirror(p)] = fs0[p]

\* C8 witness: the apply of an HTML parser has succeeded on a primary that
\* exists
C8_Witness ==
  \E i \in DOMAIN log :
    /\ log[i].parser.cls = "CommentsHtmlParser"
    /\ log[i].ok
    /\ log[i].parser.primary_path \in DOMAIN fs

====
